---- MODULE Spec2Model ----
(***************************************************************************)
(* Model of metabase_sync.py: MetabaseClient.login, get_content,           *)
(* restore_content, show_inspect and verify, driven by main, against a     *)
(* Metabase instance that answers the API requests (or fails to).          *)
(***************************************************************************)
EXTENDS Integers, Sequences, FiniteSets, TLC

\* ---------------------------------------------------------------- bounds
\* Largest number of Queries in a snapshot.
MaxCards == 4
\* Largest snapshot in the scenarios where requests may fail.
MaxFailCards == 3
\* Largest number of requests of one scenario that get no usable answer.
MaxFails == 2
\* Largest number of Dashboards of an instance handed to verify.
MaxDash == 2

\* range(3) of the pass loop
Passes == 3

\* ---------------------------------------------------------------- values
QueryNames == <<"A", "B", "C", "D", "E", "F">>
DashNames == <<"D1", "D2", "D3", "D4">>
\* an original ID no snapshot Query has
MissingId == MaxCards + 5
\* numbers that can follow card__ in a token
Digits == 0..(3 * MaxCards + 6)

\* str(n)
Str(n) == ToString(n)
\* f"card__{n}"
Token(n) == "card__" \o Str(n)
\* isinstance(st, str) and st.startswith("card__")
IsCardToken(st) == \E n \in Digits : st = Token(n)
\* st.replace("card__", "")
StripCard(st) == CHOOSE s \in {Str(n) : n \in Digits} : "card__" \o s = st

Range(s) == {s[j] : j \in DOMAIN s}
MaxOf(S) == CHOOSE m \in S : \A x \in S : x <= m
Reverse(s) == [j \in 1..Len(s) |-> s[Len(s) + 1 - j]]
Perms(n) == {f \in [1..n -> 1..n] : \A a, b \in 1..n : a # b => f[a] # f[b]}

VARIABLES
    action,       \* args.action
    pc,           \* position of the process
    session_id,   \* MetabaseClient.session_id
    exit_code,    \* status the process ends with
    allow,        \* requests of this scenario that may get no usable answer
    fails,        \* requests that got no usable answer so far
    runs,         \* further invocations of restore_content by the caller
    archive,      \* cards.json of the archive: the Query list as backed up
    cards,        \* the Query objects restore_content was given
    dashboards,   \* the Dashboard objects restore_content was given
    db_id,        \* args.db
    srvCards,     \* the instance's Queries, in list order
    srvDashes,    \* the instance's Dashboards with their placements
    srv0,         \* the instance's content when the current run began
    existing, id_map, to_restore, rem, pass, i, restored, dash_map, di,
    result,       \* value returned by restore_content / verify
    posts,        \* POST /api/card requests of the current run
    dposts,       \* POST /api/dashboard requests of the current run
    puts,         \* PUT /api/dashboard/{id}/cards requests of the current run
    vcards, vdashes, success, fetched, report,
    file,         \* what args.file names: "ok" is a complete archive
    hdrs,         \* X-Metabase-Session values the content requests carried
    bcards,       \* get_content: cards
    listed,       \* get_content: the Dashboard list
    dashes,       \* get_content: the detail answers, <<>> for None
    backup        \* the archive the backup action wrote

\* the variables of the archive and of get_content
xvars == <<file, bcards, listed, dashes, backup>>

vars == <<xvars, hdrs, action, pc, session_id, exit_code, allow, fails, runs, archive, cards,
          dashboards, db_id, srvCards, srvDashes, srv0, existing, id_map,
          to_restore, rem, pass, i, restored, dash_map, di, result, posts,
          dposts, puts, vcards, vdashes, success, fetched, report>>

\* what a request can come back with: an answer (TRUE) or None (FALSE)
Answers == IF fails < allow THEN {TRUE, FALSE} ELSE {TRUE}

\* ------------------------------------------------------------- scenarios
\* One placement of a Dashboard; card_id 0 stands for a placement without Query.
Placement(cid, j) ==
    [card_id |-> cid, row |-> j, col |-> j + 1, size_x |-> 4, size_y |-> 3,
     visualization_settings |-> "vs", parameter_mappings |-> "pm"]

\* Queries 1..n as backed up: Query k has original ID p[k]; Query 1 reads a
\* table, a Query that was not backed up ("missing") or Query n ("cycle"),
\* Query k > 1 reads Query k-1 through the token card__<p[k-1]>.
\* dataset_query.st is dataset_query["query"]["source-table"].
SnapshotCards(n, p, root) ==
    [k \in 1..n |->
        [id |-> p[k], name |-> QueryNames[k], collection_id |-> "coll",
         dataset_query |->
            [database |-> 2,
             st |-> IF k = 1
                    THEN IF root = "missing" THEN Token(MissingId)
                         ELSE IF root = "cycle" THEN Token(p[n]) ELSE "table"
                    ELSE Token(p[k - 1])]]]

\* Two Dashboards as backed up: D1 places Query 1, a Query that is not in the
\* snapshot and Query n; D2 holds a text placement and Query n.
SnapshotDashboards(n, p) ==
    << [id |-> 1, name |-> DashNames[1],
        dashcards |-> <<Placement(p[1], 1), Placement(MissingId, 2),
                        Placement(p[n], 3)>>],
       [id |-> 2, name |-> DashNames[2],
        dashcards |-> <<Placement(0, 1), Placement(p[n], 2)>>] >>

\* Target instance before the restore: optionally a Query named like Query pre
\* of the snapshot, optionally a Dashboard named D1.
TargetCards(pre) ==
    IF pre = 0 THEN <<>>
    ELSE <<[id |-> 1, name |-> QueryNames[pre], collection_id |-> "null",
            dataset_query |-> [database |-> 5, st |-> "table"]]>>

TargetDashes(pd) ==
    IF pd THEN <<[id |-> 1, name |-> DashNames[1], dashcards |-> <<>>]>>
    ELSE <<>>

\* Instances handed to verify, backup and inspect: nc Queries with IDs 1..nc, and Dashboards whose
\* placements name Queries 1..3 or none.
VerifyPlacements ==
    { <<>>, <<Placement(1, 1)>>, <<Placement(1, 1), Placement(3, 2)>>,
      <<Placement(0, 1), Placement(2, 2)>> }

VerifyCards(nc) ==
    [k \in 1..nc |-> [id |-> k, name |-> QueryNames[k], collection_id |-> "null",
                      dataset_query |-> [database |-> 5, st |-> "table"]]]

VerifyDashes(pl) ==
    [k \in 1..Len(pl) |-> [id |-> k, name |-> DashNames[k], dashcards |-> pl[k]]]

Locals ==
    /\ existing = <<>> /\ id_map = <<>> /\ to_restore = <<>> /\ rem = <<>>
    /\ pass = 0 /\ i = 0 /\ restored = 0 /\ dash_map = <<>> /\ di = 0
    /\ result = "none" /\ posts = <<>> /\ dposts = <<>> /\ puts = <<>>
    /\ vcards = <<>> /\ vdashes = <<>> /\ success = TRUE /\ fetched = <<>>
    /\ report = <<>>
    /\ pc = "login" /\ session_id = "none" /\ exit_code = -1
    /\ hdrs = {} /\ bcards = <<>> /\ listed = <<>> /\ dashes = <<>>
    /\ backup = [written |-> FALSE, cards |-> <<>>, dashes |-> <<>>]

InitRestore ==
    \E n \in 1..MaxCards, rev \in BOOLEAN, pd \in BOOLEAN, b \in {0, MaxFails} :
      \E p \in Perms(n), pre \in 0..n, root \in {"table", "missing", "cycle"} :
        /\ b > 0 => (n <= MaxFailCards /\ ~rev)
        /\ root = "cycle" => (b = 0 /\ ~rev)
        /\ action = "restore"
        /\ allow = b /\ fails = 0
        /\ runs = IF b = 0 THEN 1 ELSE 0
        /\ archive = IF rev THEN Reverse(SnapshotCards(n, p, root))
                     ELSE SnapshotCards(n, p, root)
        /\ cards = archive
        /\ dashboards = SnapshotDashboards(n, p)
        /\ db_id = 5
        /\ srvCards = TargetCards(pre)
        /\ srvDashes = TargetDashes(pd)
        /\ srv0 = [cards |-> srvCards, dashes |-> srvDashes]
        /\ file = "ok"
        /\ Locals

InitVerify ==
    \E nc \in 0..2, nd \in 0..MaxDash, b \in {0, MaxFails} :
      \E pl \in [1..nd -> VerifyPlacements] :
        /\ action \in {"verify", "backup", "inspect"}
        /\ allow = b /\ fails = 0
        /\ runs = 0
        /\ archive = <<>> /\ cards = <<>> /\ dashboards = <<>> /\ db_id = 0
        /\ srvCards = VerifyCards(nc)
        /\ srvDashes = VerifyDashes(pl)
        /\ srv0 = [cards |-> srvCards, dashes |-> srvDashes]
        /\ file = "ok"
        /\ Locals

\* The restore action given no usable archive. cards.json and dashboards.json
\* are what the file would yield where it holds them.
InitBadArchive ==
    \E f \in {"nofile", "missing", "notzip", "nocards", "nodashboards"},
       pre \in 0..1, pd \in BOOLEAN :
        /\ action = "restore"
        /\ allow = 0 /\ fails = 0 /\ runs = 0
        /\ archive = SnapshotCards(1, <<1>>, "table")
        /\ cards = <<>>
        /\ dashboards = SnapshotDashboards(1, <<1>>)
        /\ db_id = 5
        /\ srvCards = TargetCards(pre)
        /\ srvDashes = TargetDashes(pd)
        /\ srv0 = [cards |-> srvCards, dashes |-> srvDashes]
        /\ file = f
        /\ Locals

\* A snapshot with two Queries of one name and two Dashboards of one name.
InitDuplicates ==
    \E p \in Perms(2), pre \in 0..1, pd \in BOOLEAN, b \in {0, MaxFails} :
        /\ action = "restore"
        /\ allow = b /\ fails = 0
        /\ runs = IF b = 0 THEN 1 ELSE 0
        /\ archive = [k \in 1..2 |->
                        [SnapshotCards(2, p, "table")[k] EXCEPT !.name = QueryNames[2]]]
        /\ cards = archive
        /\ dashboards = [k \in 1..2 |->
                        [SnapshotDashboards(2, p)[k] EXCEPT !.name = DashNames[1]]]
        /\ db_id = 5
        /\ srvCards = TargetCards(pre)
        /\ srvDashes = TargetDashes(pd)
        /\ srv0 = [cards |-> srvCards, dashes |-> srvDashes]
        /\ file = "ok"
        /\ Locals

\* A target on which every request of a run may go unanswered, so that a
\* create request can fail in each of the passes.
InitFlaky ==
    \E n \in 1..2 :
      \E p \in Perms(n) :
        /\ action = "restore"
        /\ allow = Passes + 1 /\ fails = 0 /\ runs = 0
        /\ archive = SnapshotCards(n, p, "table")
        /\ cards = archive
        /\ dashboards = SnapshotDashboards(n, p)
        /\ db_id = 5
        /\ srvCards = TargetCards(0)
        /\ srvDashes = TargetDashes(TRUE)
        /\ srv0 = [cards |-> srvCards, dashes |-> srvDashes]
        /\ file = "ok"
        /\ Locals

Init == InitRestore \/ InitVerify \/ InitBadArchive \/ InitDuplicates \/ InitFlaky

\* ------------------------------------------------------------------ main
\* main going on to the action whatever login() returned
LoginUnchecked ==
    /\ pc = "login"
    /\ \E ok \in Answers :
        /\ fails' = IF ok THEN fails ELSE fails + 1
        /\ session_id' = IF ok THEN "token" ELSE session_id
        /\ pc' = action
        /\ exit_code' = exit_code
    /\ UNCHANGED <<xvars, hdrs, action, allow, runs, archive, cards, dashboards, db_id, srvCards,
                   srvDashes, srv0, existing, id_map, to_restore, rem, pass, i,
                   restored, dash_map, di, result, posts, dposts, puts, vcards,
                   vdashes, success, fetched, report>>

\* login(): POST /api/session; main exits with status 1 when it fails.
Login ==
    /\ pc = "login"
    /\ \E ok \in Answers :
        /\ fails' = IF ok THEN fails ELSE fails + 1
        /\ session_id' = IF ok THEN "token" ELSE session_id
        /\ pc' = IF ok THEN action ELSE "exit"
        /\ exit_code' = IF ok THEN exit_code ELSE 1
    /\ UNCHANGED <<xvars, hdrs, action, allow, runs, archive, cards, dashboards, db_id, srvCards,
                   srvDashes, srv0, existing, id_map, to_restore, rem, pass, i,
                   restored, dash_map, di, result, posts, dposts, puts, vcards,
                   vdashes, success, fetched, report>>

\* the archive loaded whatever args.file names
OpenArchiveUnchecked ==
    /\ pc = "restore"
    /\ cards' = archive
    /\ pc' = "restore_content"
    /\ UNCHANGED <<xvars, hdrs, action, allow, session_id, exit_code, fails, runs,
                   archive, dashboards, db_id, srvCards, srvDashes, srv0,
                   existing, id_map, to_restore, rem, pass, i, restored,
                   dash_map, di, result, posts, dposts, puts, vcards, vdashes,
                   success, fetched, report>>

\* lines 332-348: no -f, a path that does not exist and a file that is no ZIP
\* end the action; a ZIP without cards.json or dashboards.json makes zf.read
\* raise before restore_content is called; otherwise the two lists are loaded.
OpenArchive ==
    /\ pc = "restore"
    /\ IF file \in {"nofile", "missing", "notzip"}
       THEN pc' = "aborted" /\ exit_code' = 0 /\ UNCHANGED cards
       ELSE IF file \in {"nocards", "nodashboards"}
       THEN pc' = "crash" /\ exit_code' = 1 /\ UNCHANGED cards
       ELSE pc' = "restore_content" /\ cards' = archive /\ UNCHANGED exit_code
    /\ UNCHANGED <<xvars, hdrs, action, allow, session_id, fails, runs,
                   archive, dashboards, db_id, srvCards, srvDashes, srv0,
                   existing, id_map, to_restore, rem, pass, i, restored,
                   dash_map, di, result, posts, dposts, puts, vcards, vdashes,
                   success, fetched, report>>

\* -------------------------------------------------------- restore_content
\* {c["name"]: c["id"] for c in list}: the last Query of a name wins
NameToId(list) ==
    [nm \in {list[j].name : j \in DOMAIN list} |->
        list[MaxOf({j \in DOMAIN list : list[j].name = nm})].id]

\* {str(c["id"]): existing[c["name"]] for c in cards if c["name"] in existing}
SeedIdMap(cs, ex) ==
    LET hit == {j \in DOMAIN cs : cs[j].name \in DOMAIN ex}
    IN [s \in {Str(cs[j].id) : j \in hit} |->
            ex[cs[MaxOf({j \in hit : Str(cs[j].id) = s})].name]]

\* the pending list left in snapshot order
Unsorted(s, cs) == s

\* list.sort(key=lambda x: x.get("id", 0)) on a list of positions in cs: stable
RECURSIVE SortById(_, _)
SortById(s, cs) ==
    IF s = <<>> THEN <<>>
    ELSE LET front == SortById(SubSeq(s, 1, Len(s) - 1), cs)
             k == s[Len(s)]
             n == Cardinality({j \in DOMAIN front : cs[front[j]].id <= cs[k].id})
         IN SubSeq(front, 1, n) \o <<k>> \o SubSeq(front, n + 1, Len(front))

\* every snapshot Query pending, whether its name exists on the target or not
PendingAll(cs, ex) == SortById([j \in 1..Len(cs) |-> j], cs)

\* [c for c in cards if c["name"] not in existing], then sorted
Pending(cs, ex) ==
    SortById(SelectSeq([j \in 1..Len(cs) |-> j],
                       LAMBDA j : cs[j].name \notin DOMAIN ex), cs)

\* lines 104-113: GET /api/card, existing, id_map, to_restore, restored = 0
StartRestore ==
    /\ pc = "restore_content"
    /\ \E ok \in Answers :
        LET list == IF ok THEN srvCards ELSE <<>>
            ex == NameToId(list)
        IN /\ fails' = IF ok THEN fails ELSE fails + 1
           /\ existing' = ex
           /\ id_map' = SeedIdMap(cards, ex)
           /\ to_restore' = Pending(cards, ex)
    /\ rem' = <<>> /\ restored' = 0 /\ pass' = 1 /\ i' = 1
    /\ pc' = "cards"
    /\ hdrs' = hdrs \cup {session_id}
    /\ UNCHANGED <<xvars, action, allow, session_id, exit_code, runs, archive, cards,
                   dashboards, db_id, srvCards, srvDashes, srv0, dash_map, di,
                   result, posts, dposts, puts, vcards, vdashes, success,
                   fetched, report>>

\* the database rewritten, the dependency token left as backed up
RewriteKeepsToken(dq, dbid, idmap) == [dq EXCEPT !.database = dbid]

\* dq after lines 122-131 (left with its token when the dependency is not in
\* id_map and the Query is deferred).
\* dq is the snapshot Query's own dataset_query object: {**c, ...} copies the
\* top level of c only.
RewriteQuery(dq, dbid, idmap) ==
    LET dq1 == [dq EXCEPT !.database = dbid]
    IN IF IsCardToken(dq1.st)
       THEN IF StripCard(dq1.st) \in DOMAIN idmap
            THEN [dq1 EXCEPT !.st = Token(idmap[StripCard(dq1.st)])]
            ELSE dq1
       ELSE dq1

\* a dependency counts as resolved only when it was matched by name
DeferredUnlessMatched(dq, idmap) ==
    IsCardToken(dq.st) /\ StripCard(dq.st) \notin DOMAIN SeedIdMap(cards, existing)

\* lines 128-134: the dependency is not in id_map
Deferred(dq, idmap) ==
    IsCardToken(dq.st) /\ StripCard(dq.st) \notin DOMAIN idmap

\* the request body with the original ID and the folder left in
PayloadAsBackedUp(c, dq) ==
    [id |-> c.id, name |-> c.name, collection_id |-> c.collection_id,
     dataset_query |-> dq]

\* lines 119-121: the request body, without "id" and with a null folder
Payload(c, dq) ==
    [name |-> c.name, collection_id |-> "null", dataset_query |-> dq]

\* the instance's answer to POST /api/card
CreatedCard(list, payload) ==
    [id |-> Len(list) + 1, name |-> payload.name,
     collection_id |-> payload.collection_id,
     dataset_query |-> payload.dataset_query]

\* lines 118-140: one Query of the pending list in the current pass
RestoreCard ==
    /\ pc = "cards" /\ pass <= Passes /\ i <= Len(to_restore)
    /\ LET k == to_restore[i]
           c == cards[k]
           dq == RewriteQuery(c.dataset_query, db_id, id_map)
       IN /\ cards' = [cards EXCEPT ![k].dataset_query = dq]
          /\ IF Deferred(c.dataset_query, id_map)
             THEN /\ rem' = Append(rem, k)
                  /\ UNCHANGED <<fails, id_map, restored, srvCards, posts, hdrs>>
             ELSE \E ok \in Answers :
                    LET new == CreatedCard(srvCards, Payload(c, dq))
                    IN /\ fails' = IF ok THEN fails ELSE fails + 1
                       /\ hdrs' = hdrs \cup {session_id}
                       /\ posts' = Append(posts,
                             [pass |-> pass, k |-> k, payload |-> Payload(c, dq),
                              ok |-> ok, id |-> IF ok THEN new.id ELSE 0])
                       /\ srvCards' = IF ok THEN Append(srvCards, new) ELSE srvCards
                       /\ id_map' = IF ok THEN [s \in DOMAIN id_map \cup {Str(c.id)} |->
                                                  IF s = Str(c.id) THEN new.id
                                                  ELSE id_map[s]]
                                    ELSE id_map
                       /\ restored' = IF ok THEN restored + 1 ELSE restored
                       /\ rem' = IF ok THEN rem ELSE Append(rem, k)
    /\ i' = i + 1
    /\ UNCHANGED <<xvars, action, allow, pc, session_id, exit_code, runs, archive, dashboards,
                   db_id, srvDashes, srv0, existing, to_restore, pass, dash_map,
                   di, result, dposts, puts, vcards, vdashes, success, fetched,
                   report>>

\* the pass is over and the next one gets the same list again
EndPassKeepsAll ==
    /\ pc = "cards" /\ pass <= Passes
    /\ to_restore # <<>> /\ i > Len(to_restore)
    /\ to_restore' = to_restore /\ rem' = <<>>
    /\ pass' = pass + 1 /\ i' = 1
    /\ UNCHANGED <<xvars, hdrs, action, allow, pc, session_id, exit_code, fails, runs, archive,
                   cards, dashboards, db_id, srvCards, srvDashes, srv0, existing,
                   id_map, restored, dash_map, di, result, posts, dposts, puts,
                   vcards, vdashes, success, fetched, report>>

\* line 141 and the loop header: the pass is over
EndPass ==
    /\ pc = "cards" /\ pass <= Passes
    /\ to_restore # <<>> /\ i > Len(to_restore)
    /\ to_restore' = rem /\ rem' = <<>>
    /\ pass' = pass + 1 /\ i' = 1
    /\ UNCHANGED <<xvars, hdrs, action, allow, pc, session_id, exit_code, fails, runs, archive,
                   cards, dashboards, db_id, srvCards, srvDashes, srv0, existing,
                   id_map, restored, dash_map, di, result, posts, dposts, puts,
                   vcards, vdashes, success, fetched, report>>

\* lines 114-116 left, 143-153: GET /api/dashboard, dash_map
ListDashboards ==
    /\ pc = "cards"
    /\ to_restore = <<>> \/ pass > Passes
    /\ \E ok \in Answers :
        /\ fails' = IF ok THEN fails ELSE fails + 1
        /\ dash_map' = NameToId(IF ok THEN srvDashes ELSE <<>>)
    /\ di' = 1
    /\ pc' = "dashes"
    /\ hdrs' = hdrs \cup {session_id}
    /\ UNCHANGED <<xvars, action, allow, session_id, exit_code, runs, archive, cards,
                   dashboards, db_id, srvCards, srvDashes, srv0, existing,
                   id_map, to_restore, rem, pass, i, restored, result, posts,
                   dposts, puts, vcards, vdashes, success, fetched, report>>

\* the placement sent with the Query reference as backed up
NdcOriginal(dc, j, idmap) ==
    [id |-> 0 - j, row |-> dc.row, col |-> dc.col,
     size_x |-> dc.size_x, size_y |-> dc.size_y,
     visualization_settings |-> dc.visualization_settings,
     parameter_mappings |-> dc.parameter_mappings, card_id |-> dc.card_id]

\* lines 168-178: the placement sent for placement j (1-based) of a Dashboard
Ndc(dc, j, idmap) ==
    LET base == [id |-> 0 - j, row |-> dc.row, col |-> dc.col,
                 size_x |-> dc.size_x, size_y |-> dc.size_y,
                 visualization_settings |-> dc.visualization_settings,
                 parameter_mappings |-> dc.parameter_mappings]
    IN IF dc.card_id # 0
       THEN [f \in DOMAIN base \cup {"card_id"} |->
                IF f = "card_id" THEN idmap[Str(dc.card_id)] ELSE base[f]]
       ELSE base

\* line 164: the placement names a Query that is not in id_map
Dropped(dc, idmap) == dc.card_id # 0 /\ Str(dc.card_id) \notin DOMAIN idmap

\* every placement sent, those of unrestored Queries without Query reference
CardsPayloadNull(d, idmap) ==
    [j \in 1..Len(d.dashcards) |->
        IF Dropped(d.dashcards[j], idmap)
        THEN Ndc([d.dashcards[j] EXCEPT !.card_id = 0], j, idmap)
        ELSE Ndc(d.dashcards[j], j, idmap)]

\* the kept placements numbered by their position in the list sent
CardsPayloadRenumbered(d, idmap) ==
    LET kept == SelectSeq([j \in 1..Len(d.dashcards) |-> j],
                          LAMBDA j : ~Dropped(d.dashcards[j], idmap))
    IN [m \in 1..Len(kept) |-> Ndc(d.dashcards[kept[m]], m, idmap)]

\* lines 161-179: cards_payload
CardsPayload(d, idmap) ==
    LET kept == SelectSeq([j \in 1..Len(d.dashcards) |-> j],
                          LAMBDA j : ~Dropped(d.dashcards[j], idmap))
    IN [m \in 1..Len(kept) |-> Ndc(d.dashcards[kept[m]], kept[m], idmap)]

\* the placements the instance holds after PUT /api/dashboard/{id}/cards
StoredPlacements(payload) ==
    [m \in 1..Len(payload) |->
        [card_id |-> IF "card_id" \in DOMAIN payload[m] THEN payload[m].card_id ELSE 0,
         row |-> payload[m].row, col |-> payload[m].col,
         size_x |-> payload[m].size_x, size_y |-> payload[m].size_y,
         visualization_settings |-> payload[m].visualization_settings,
         parameter_mappings |-> payload[m].parameter_mappings]]

BoolStr(b) == IF b THEN "true" ELSE "false"

\* true only when Phase B went through as well
ReturnValueStrict(pending) ==
    BoolStr(/\ pending = <<>>
            /\ \A m \in DOMAIN puts : puts[m].ok
            /\ \A m \in DOMAIN dposts : dposts[m].ok)

\* line 189: return not to_restore
ReturnValue(pending) == BoolStr(pending = <<>>)

\* lines 154-188: one Dashboard of the snapshot
RestoreDashboard ==
    /\ pc = "dashes" /\ di <= Len(dashboards)
    /\ LET d == dashboards[di]
           known == d.name \in DOMAIN dash_map
       IN \E okc \in (IF known THEN {TRUE} ELSE Answers) :
            LET d_id == IF known THEN dash_map[d.name]
                        ELSE IF okc THEN Len(srvDashes) + 1 ELSE 0
                made == IF known \/ ~okc THEN srvDashes
                        ELSE Append(srvDashes,
                                    [id |-> d_id, name |-> d.name, dashcards |-> <<>>])
                payload == CardsPayload(d, id_map)
            IN /\ dposts' = IF known THEN dposts
                            ELSE Append(dposts, [d |-> di, name |-> d.name,
                                                 ok |-> okc, id |-> d_id])
               /\ IF d_id = 0
                  THEN /\ fails' = fails + 1
                       /\ UNCHANGED <<srvDashes, puts>>
                  ELSE \E okp \in Answers :
                         /\ fails' = IF okp THEN fails ELSE fails + 1
                         /\ puts' = Append(puts, [d |-> di, d_id |-> d_id,
                                                  cards |-> payload, ok |-> okp])
                         /\ srvDashes' =
                              IF okp
                              THEN [m \in 1..Len(made) |->
                                      IF made[m].id = d_id
                                      THEN [made[m] EXCEPT
                                              !.dashcards = StoredPlacements(payload)]
                                      ELSE made[m]]
                              ELSE made
    /\ di' = di + 1
    /\ hdrs' = hdrs \cup {session_id}
    /\ UNCHANGED <<xvars, action, allow, pc, session_id, exit_code, runs, archive, cards,
                   dashboards, db_id, srvCards, srv0, existing, id_map,
                   to_restore, rem, pass, i, restored, dash_map, result, posts,
                   vcards, vdashes, success, fetched, report>>

\* line 189; main ends with status 0 whatever restore_content returned
Return ==
    /\ pc = "dashes" /\ di > Len(dashboards)
    /\ result' = ReturnValue(to_restore)
    /\ exit_code' = 0
    /\ pc' = "done"
    /\ UNCHANGED <<xvars, hdrs, action, allow, session_id, fails, runs, archive, cards, dashboards,
                   db_id, srvCards, srvDashes, srv0, existing, id_map,
                   to_restore, rem, pass, i, restored, dash_map, di, posts,
                   dposts, puts, vcards, vdashes, success, fetched, report>>

\* lines 343-348 once more: the restore action is run again on the same
\* target, with the archive read anew.
Rerun ==
    /\ pc = "done" /\ action = "restore" /\ runs > 0
    /\ runs' = runs - 1
    /\ cards' = archive
    /\ srv0' = [cards |-> srvCards, dashes |-> srvDashes]
    /\ posts' = <<>> /\ dposts' = <<>> /\ puts' = <<>>
    /\ result' = "none" /\ exit_code' = 0 - 1
    /\ pc' = "restore"
    /\ UNCHANGED <<xvars, hdrs, action, allow, session_id, fails, archive, dashboards, db_id,
                   srvCards, srvDashes, existing, id_map, to_restore, rem, pass,
                   i, restored, dash_map, di, vcards, vdashes, success, fetched,
                   report>>

\* ------------------------------------------------------------------ verify
\* lines 233-248: the two list requests and the fail-fast returns
VerifyStart ==
    /\ pc = "verify"
    /\ \E okc \in Answers :
        LET cl == IF okc THEN srvCards ELSE <<>>
        IN /\ vcards' = cl
           /\ IF cl = <<>>
              THEN /\ fails' = IF okc THEN fails ELSE fails + 1
                   /\ vdashes' = <<>>
                   /\ result' = "false" /\ exit_code' = 1 /\ pc' = "done"
              ELSE \E okd \in Answers :
                     LET dl == IF okd THEN srvDashes ELSE <<>>
                     IN /\ fails' = IF okd THEN fails ELSE fails + 1
                        /\ vdashes' = dl
                        /\ IF dl = <<>>
                           THEN result' = "false" /\ exit_code' = 1 /\ pc' = "done"
                           ELSE pc' = "vloop" /\ UNCHANGED <<result, exit_code>>
    /\ success' = TRUE /\ di' = 1
    /\ hdrs' = hdrs \cup {session_id}
    /\ UNCHANGED <<xvars, action, allow, session_id, runs, archive, cards, dashboards, db_id,
                   srvCards, srvDashes, srv0, existing, id_map, to_restore, rem,
                   pass, i, restored, dash_map, posts, dposts, puts, fetched,
                   report>>

\* only the first placement of the Dashboard looked at
MissingCardsFirst(dash_cards, valid_card_ids) ==
    IF dash_cards # <<>> /\ dash_cards[1].card_id # 0
       /\ dash_cards[1].card_id \notin valid_card_ids
    THEN <<dash_cards[1].card_id>> ELSE <<>>

\* lines 267-271: missing_cards of one Dashboard detail
MissingCards(dash_cards, valid_card_ids) ==
    LET hit == SelectSeq([j \in 1..Len(dash_cards) |-> j],
                         LAMBDA j : dash_cards[j].card_id # 0
                                    /\ dash_cards[j].card_id \notin valid_card_ids)
    IN [m \in 1..Len(hit) |-> dash_cards[hit[m]].card_id]

\* GET /api/dashboard/{id}
Detail(id) == CHOOSE d \in Range(srvDashes) : d.id = id

\* the scan left at the first Dashboard that is not in order
VerifyDashFailFast ==
    /\ pc = "vloop" /\ di <= Len(vdashes)
    /\ \E ok \in Answers :
        LET d == vdashes[di]
            valid_card_ids == {vcards[j].id : j \in DOMAIN vcards}
            dash_cards == IF ok THEN Detail(d.id).dashcards ELSE <<>>
            missing_cards == MissingCards(dash_cards, valid_card_ids)
            status == IF ~ok THEN "nodetail"
                      ELSE IF dash_cards = <<>> THEN "empty"
                      ELSE IF missing_cards # <<>> THEN "missing" ELSE "ok"
        IN /\ fails' = IF ok THEN fails ELSE fails + 1
           /\ success' = IF status = "ok" THEN success ELSE FALSE
           /\ report' = Append(report, [id |-> d.id, name |-> d.name,
                                        status |-> status,
                                        missing |-> missing_cards])
           /\ fetched' = Append(fetched, d.id)
           /\ di' = IF status = "ok" THEN di + 1 ELSE Len(vdashes) + 1
    /\ hdrs' = hdrs \cup {session_id}
    /\ UNCHANGED <<xvars, action, allow, pc, session_id, exit_code, runs, archive, cards,
                   dashboards, db_id, srvCards, srvDashes, srv0, existing,
                   id_map, to_restore, rem, pass, i, restored, dash_map, result,
                   posts, dposts, puts, vcards, vdashes>>

\* lines 250-286: one Dashboard of the list
VerifyDash ==
    /\ pc = "vloop" /\ di <= Len(vdashes)
    /\ \E ok \in Answers :
        LET d == vdashes[di]
            valid_card_ids == {vcards[j].id : j \in DOMAIN vcards}
            dash_cards == IF ok THEN Detail(d.id).dashcards ELSE <<>>
            missing_cards == MissingCards(dash_cards, valid_card_ids)
            status == IF ~ok THEN "nodetail"
                      ELSE IF dash_cards = <<>> THEN "empty"
                      ELSE IF missing_cards # <<>> THEN "missing" ELSE "ok"
        IN /\ fails' = IF ok THEN fails ELSE fails + 1
           /\ success' = IF status = "ok" THEN success ELSE FALSE
           /\ report' = Append(report, [id |-> d.id, name |-> d.name,
                                        status |-> status,
                                        missing |-> missing_cards])
           /\ fetched' = Append(fetched, d.id)
    /\ di' = di + 1
    /\ hdrs' = hdrs \cup {session_id}
    /\ UNCHANGED <<xvars, action, allow, pc, session_id, exit_code, runs, archive, cards,
                   dashboards, db_id, srvCards, srvDashes, srv0, existing,
                   id_map, to_restore, rem, pass, i, restored, dash_map, result,
                   posts, dposts, puts, vcards, vdashes>>

\* lines 288-292, 350-351
VerifyEnd ==
    /\ pc = "vloop" /\ di > Len(vdashes)
    /\ result' = BoolStr(success)
    /\ exit_code' = IF success THEN 0 ELSE 1
    /\ pc' = "done"
    /\ UNCHANGED <<xvars, hdrs, action, allow, session_id, fails, runs, archive, cards, dashboards,
                   db_id, srvCards, srvDashes, srv0, existing, id_map,
                   to_restore, rem, pass, i, restored, dash_map, di, posts,
                   dposts, puts, vcards, vdashes, success, fetched, report>>

\* ------------------------------------------------------------- get_content
\* the details up to the first None
ExtractedUntilNone(ds) ==
    LET bad == {j \in DOMAIN ds : ds[j] = <<>>}
        stop == IF bad = {} THEN Len(ds) + 1
                ELSE CHOOSE j \in bad : \A x \in bad : j <= x
    IN [j \in 1..(stop - 1) |-> ds[j][1]]

\* line 99: [d for d in dashes if d]
RECURSIVE Extracted(_)
Extracted(ds) ==
    IF ds = <<>> THEN <<>>
    ELSE IF Head(ds) = <<>> THEN Extracted(Tail(ds))
    ELSE <<Head(ds)[1]>> \o Extracted(Tail(ds))

\* lines 94 and 97: GET /api/card, GET /api/dashboard
GetLists ==
    /\ pc = "backup"
    /\ \E okc \in Answers :
        \E okd \in (IF okc THEN Answers ELSE
                      IF fails + 1 < allow THEN {TRUE, FALSE} ELSE {TRUE}) :
          /\ bcards' = IF okc THEN srvCards ELSE <<>>
          /\ listed' = IF okd THEN srvDashes ELSE <<>>
          /\ fails' = fails + (IF okc THEN 0 ELSE 1) + (IF okd THEN 0 ELSE 1)
    /\ dashes' = <<>> /\ di' = 1
    /\ hdrs' = hdrs \cup {session_id}
    /\ pc' = "details"
    /\ UNCHANGED <<file, backup, action, allow, session_id, exit_code, runs,
                   archive, cards, dashboards, db_id, srvCards, srvDashes, srv0,
                   existing, id_map, to_restore, rem, pass, i, restored,
                   dash_map, result, posts, dposts, puts, vcards, vdashes,
                   success, fetched, report>>

\* line 96: GET /api/dashboard/{id} of one listed Dashboard
GetDetail ==
    /\ pc = "details" /\ di <= Len(listed)
    /\ \E ok \in Answers :
        /\ fails' = IF ok THEN fails ELSE fails + 1
        /\ dashes' = Append(dashes, IF ok THEN <<Detail(listed[di].id)>> ELSE <<>>)
    /\ di' = di + 1
    /\ hdrs' = hdrs \cup {session_id}
    /\ UNCHANGED <<file, bcards, listed, backup, action, allow, pc, session_id,
                   exit_code, runs, archive, cards, dashboards, db_id, srvCards,
                   srvDashes, srv0, existing, id_map, to_restore, rem, pass, i,
                   restored, dash_map, result, posts, dposts, puts, vcards,
                   vdashes, success, fetched, report>>

\* lines 99, 321-331: the snapshot is returned and written to the archive
WriteArchive ==
    /\ pc = "details" /\ di > Len(listed)
    /\ backup' = [written |-> TRUE, cards |-> bcards, dashes |-> Extracted(dashes)]
    /\ exit_code' = 0
    /\ pc' = "done"
    /\ UNCHANGED <<file, bcards, listed, dashes, hdrs, action, allow,
                   session_id, fails, runs, archive, cards, dashboards, db_id,
                   srvCards, srvDashes, srv0, existing, id_map, to_restore, rem,
                   pass, i, restored, dash_map, di, result, posts, dposts, puts,
                   vcards, vdashes, success, fetched, report>>

\* ------------------------------------------------------------ show_inspect
\* lines 193-226: properties, the card, dashboard and database lists, every
\* Dashboard's detail and the user list are requested and printed
ShowInspect ==
    /\ pc = "inspect"
    /\ \E ok \in Answers : fails' = IF ok THEN fails ELSE fails + 1
    /\ hdrs' = hdrs \cup {session_id}
    /\ exit_code' = 0
    /\ pc' = "done"
    /\ UNCHANGED <<xvars, action, allow, session_id, runs, archive, cards,
                   dashboards, db_id, srvCards, srvDashes, srv0, existing,
                   id_map, to_restore, rem, pass, i, restored, dash_map, di,
                   result, posts, dposts, puts, vcards, vdashes, success,
                   fetched, report>>

Next ==
    \/ Login
    \/ OpenArchive
    \/ GetLists
    \/ GetDetail
    \/ WriteArchive
    \/ ShowInspect
    \/ StartRestore
    \/ RestoreCard
    \/ EndPass
    \/ ListDashboards
    \/ RestoreDashboard
    \/ Return
    \/ Rerun
    \/ VerifyStart
    \/ VerifyDash
    \/ VerifyEnd

Spec == Init /\ [][Next]_vars

\* ==================================================================
\* Properties
\* ==================================================================
Names(list) == {list[j].name : j \in DOMAIN list}
Ids(list) == {list[j].id : j \in DOMAIN list}
CountName(list, nm) == Cardinality({j \in DOMAIN list : list[j].name = nm})
PostsOf(k) == {m \in DOMAIN posts : posts[m].k = k}
OkPosts(k) == {m \in PostsOf(k) : posts[m].ok}
AllCreatesOk == \A m \in DOMAIN posts : posts[m].ok
RestoreDone == action = "restore" /\ pc = "done"
\* Query a of the snapshot reads a table; Query b reads Query a
ReadsTable(a) == ~IsCardToken(archive[a].dataset_query.st)
ReadsQuery(b, a) == archive[b].dataset_query.st = Token(archive[a].id)
OnTarget(id, nm) == \E j \in DOMAIN srvCards : srvCards[j].id = id /\ srvCards[j].name = nm
Fresh(k) == archive[k].name \notin Names(srv0.cards)

\* C1 -- Dependency resolution: when restore_content has returned and every
\* create request succeeded, for Queries A (reads a table) and B (reads A) of
\* the snapshot, in either snapshot order, whose names the target did not
\* hold, both were created within the 3 passes and the create request for B
\* carried card__<new target ID of A>.
C1_DependencyResolution ==
    RestoreDone =>
      \A a, b \in DOMAIN archive :
        (ReadsTable(a) /\ ReadsQuery(b, a) /\ Fresh(a) /\ Fresh(b) /\ AllCreatesOk)
        => \E ma \in OkPosts(a), mb \in OkPosts(b) :
              /\ posts[ma].pass <= Passes /\ posts[mb].pass <= Passes
              /\ posts[mb].payload.dataset_query.st = Token(posts[ma].id)
              /\ OnTarget(posts[ma].id, archive[a].name)
              /\ OnTarget(posts[mb].id, archive[b].name)

\* B stands before A in the snapshot and has the lower original ID, so it was
\* deferred in pass 1 and created in pass 2 with A's new ID 1, not A's
\* original ID 2.
C1_Witness ==
    /\ RestoreDone /\ Len(archive) = 2 /\ srv0.cards = <<>>
    /\ ReadsTable(2) /\ ReadsQuery(1, 2)
    /\ archive[1].id = 1 /\ archive[2].id = 2
    /\ \E m \in OkPosts(1) :
          /\ posts[m].pass = 2
          /\ posts[m].payload.dataset_query.st = Token(1)
    /\ OnTarget(1, archive[2].name)

\* 4 Queries restored into a target holding none of them, every create
\* request answered
ChainRun ==
    /\ Len(archive) = 4
    /\ Names(archive) \cap Names(srv0.cards) = {}
    /\ AllCreatesOk

Chain4(a, b, c, d) ==
    /\ ChainRun
    /\ ReadsTable(a) /\ ReadsQuery(b, a) /\ ReadsQuery(c, b) /\ ReadsQuery(d, c)

\* A, B, C created in passes 1, 2, 3; D never sent; three passes run; false
BoundHit(a, b, c, d) ==
    /\ \E m \in OkPosts(a) : posts[m].pass = 1
    /\ \E m \in OkPosts(b) : posts[m].pass = 2
    /\ \E m \in OkPosts(c) : posts[m].pass = Passes
    /\ PostsOf(d) = {}
    /\ archive[d].name \notin Names(srvCards)
    /\ pass = Passes + 1
    /\ result = "false"

\* C2 (as amended) -- Bound enforcement: for a snapshot whose Queries form a
\* dependency chain of 4 (B reads A, C reads B, D reads C) whose original IDs
\* decrease along the chain (A > B > C > D), in any snapshot order, restored
\* into a target holding none of them with every create request succeeding,
\* restore_content creates A, B and C in passes 1, 2 and 3, leaves D uncreated
\* after exactly 3 passes and returns false.
C2_BoundEnforcement ==
    (RestoreDone /\ ChainRun) =>
      \A a \in DOMAIN archive : ReadsTable(a) =>
        \A b \in DOMAIN archive : ReadsQuery(b, a) =>
          \A c \in DOMAIN archive : ReadsQuery(c, b) =>
            \A d \in DOMAIN archive :
              ( /\ ReadsQuery(d, c)
                /\ archive[a].id > archive[b].id
                /\ archive[b].id > archive[c].id
                /\ archive[c].id > archive[d].id )
              => BoundHit(a, b, c, d)

C2_Witness ==
    /\ RestoreDone /\ result = "false"
    /\ \E a, b, c, d \in DOMAIN archive :
          /\ Chain4(a, b, c, d) /\ BoundHit(a, b, c, d)
          /\ archive[a].id > archive[b].id
          /\ archive[b].id > archive[c].id
          /\ archive[c].id > archive[d].id

\* C2 as stated: the same for every assignment of original IDs.
C2_AnyIds ==
    (RestoreDone /\ ChainRun) =>
      \A a \in DOMAIN archive : ReadsTable(a) =>
        \A b \in DOMAIN archive : ReadsQuery(b, a) =>
          \A c \in DOMAIN archive : ReadsQuery(c, b) =>
            \A d \in DOMAIN archive : ReadsQuery(d, c) =>
              BoundHit(a, b, c, d)

\* C3 -- No Query is created with a wrong reference: every create request for
\* a Query whose snapshot payload names card__<d> carries card__<id_map[d]>,
\* and d is in the ID map.
C3_NoWrongReference ==
    (action = "restore" /\ pc \in {"cards", "dashes", "done"}) =>
      \A m \in DOMAIN posts :
        LET st0 == archive[posts[m].k].dataset_query.st
        IN IsCardToken(st0) =>
             /\ StripCard(st0) \in DOMAIN id_map
             /\ posts[m].payload.dataset_query.st = Token(id_map[StripCard(st0)])

\* the second invocation, after a first one in which every request was answered
SecondRun == action = "restore" /\ allow = 0 /\ runs = 0

\* C4 -- Idempotence: in a second run with the same snapshot on the same
\* target, every request answered, no create request is issued for a Query
\* or Dashboard whose name was on the target after the first run, and when
\* the run has returned the target holds as many Queries and Dashboards of
\* each such name as after the first run.
C4_Idempotence ==
    SecondRun =>
      /\ \A m \in DOMAIN posts : posts[m].payload.name \notin Names(srv0.cards)
      /\ \A m \in DOMAIN dposts : dposts[m].name \notin Names(srv0.dashes)
      /\ pc = "done" =>
           /\ \A nm \in Names(srv0.cards) :
                CountName(srvCards, nm) = CountName(srv0.cards, nm)
           /\ \A nm \in Names(srv0.dashes) :
                CountName(srvDashes, nm) = CountName(srv0.dashes, nm)

\* the second run of a snapshot of 2 Queries that an empty target received in
\* the first run: nothing is created again
C4_Witness ==
    /\ SecondRun /\ pc = "done"
    /\ Len(archive) = 2 /\ Names(archive) = Names(srv0.cards)
    /\ Names(srv0.dashes) = {DashNames[1], DashNames[2]}
    /\ Len(srvCards) = 2 /\ Len(srvDashes) = 2
    /\ posts = <<>> /\ dposts = <<>> /\ Len(puts) = 2

\* C5 -- Name-based reuse, whatever requests fail: a snapshot Query whose name
\* the target held when the run began is never sent in a create request and
\* its original ID is mapped to a target Query of that name; a snapshot
\* Dashboard whose name the target held gets no create request and its
\* placements go to a Dashboard of that name.
C5_NameReuse ==
    (action = "restore" /\ pc \in {"cards", "dashes", "done"}) =>
      /\ \A k \in DOMAIN archive :
           ~Fresh(k) =>
             /\ PostsOf(k) = {}
             /\ Str(archive[k].id) \in DOMAIN id_map
             /\ \E j \in DOMAIN srv0.cards :
                  /\ srv0.cards[j].name = archive[k].name
                  /\ srv0.cards[j].id = id_map[Str(archive[k].id)]
      /\ \A m \in DOMAIN dposts : dposts[m].name \notin Names(srv0.dashes)
      /\ \A m \in DOMAIN puts :
           dashboards[puts[m].d].name \in Names(srv0.dashes) =>
             \E j \in DOMAIN srv0.dashes :
               /\ srv0.dashes[j].name = dashboards[puts[m].d].name
               /\ srv0.dashes[j].id = puts[m].d_id

PhaseBOrDone == action = "restore" /\ pc \in {"dashes", "done"}
\* the placement of the snapshot a sent placement e was made from
Origin(m, e) == dashboards[puts[m].d].dashcards[0 - e.id]
SentIds(m) == {puts[m].cards[x].id : x \in DOMAIN puts[m].cards}
InSnapshot(cid) == cid \in Ids(archive)
\* the target Dashboard the bulk replace call m went to
TargetDash(m) == CHOOSE d \in Range(srvDashes) : d.id = puts[m].d_id

\* C6 -- Broken-reference suppression: a placement whose Query reference is
\* an original ID that is not a key of the ID map at the end of Phase A is
\* absent from the list sent in the Dashboard's bulk replace call, and every
\* placement of the snapshot that names a Query is sent with a Query
\* reference or not at all. A Dashboard with 3 placements, one of them naming
\* a Query not in the snapshot and two naming restored Queries, whose bulk
\* replace call succeeded holds exactly 2 placements on the target.
C6_BrokenReferenceSuppression ==
    PhaseBOrDone =>
      \A m \in DOMAIN puts :
        LET d == dashboards[puts[m].d]
        IN /\ \A j \in DOMAIN d.dashcards :
                (d.dashcards[j].card_id # 0
                 /\ Str(d.dashcards[j].card_id) \notin DOMAIN id_map)
                => (0 - j) \notin SentIds(m)
           /\ \A x \in DOMAIN puts[m].cards :
                Origin(m, puts[m].cards[x]).card_id # 0
                => "card_id" \in DOMAIN puts[m].cards[x]
           /\ ( /\ puts[m].ok /\ to_restore = <<>>
                /\ Len(d.dashcards) = 3
                /\ Cardinality({j \in DOMAIN d.dashcards :
                                  d.dashcards[j].card_id # 0
                                  /\ ~InSnapshot(d.dashcards[j].card_id)}) = 1
                /\ Cardinality({j \in DOMAIN d.dashcards :
                                  InSnapshot(d.dashcards[j].card_id)}) = 2 )
              => Len(TargetDash(m).dashcards) = 2

\* 2 Queries and Dashboard D1 (3 placements, one dangling) restored into an
\* empty target: D1 was created and holds exactly 2 placements
C6_Witness ==
    /\ RestoreDone /\ Len(archive) = 2 /\ restored = 2
    /\ srv0.cards = <<>> /\ srv0.dashes = <<>>
    /\ \E m \in DOMAIN puts :
          /\ puts[m].ok /\ Len(dashboards[puts[m].d].dashcards) = 3
          /\ Len(puts[m].cards) = 2
          /\ Len(TargetDash(m).dashcards) = 2

\* C7 -- Placement reference validity: every placement sent to a target
\* Dashboard that carries a Query reference carries id_map[original
\* reference], and that is the ID of a Query on the target of the referenced
\* Query's name, either matched by name or created in this run.
C7_PlacementReferenceValid ==
    PhaseBOrDone =>
      \A m \in DOMAIN puts :
        \A x \in DOMAIN puts[m].cards :
          LET e == puts[m].cards[x]
              orig == Origin(m, e).card_id
          IN "card_id" \in DOMAIN e =>
               /\ Str(orig) \in DOMAIN id_map
               /\ e.card_id = id_map[Str(orig)]
               /\ \E k \in DOMAIN archive :
                    /\ archive[k].id = orig
                    /\ OnTarget(e.card_id, archive[k].name)
                    /\ \/ \E j \in DOMAIN srv0.cards :
                            /\ srv0.cards[j].id = e.card_id
                            /\ srv0.cards[j].name = archive[k].name
                       \/ \E p \in OkPosts(k) : posts[p].id = e.card_id

\* a placement naming original Query 1 was written with target ID 2
C7_Witness ==
    /\ RestoreDone
    /\ \E m \in DOMAIN puts :
         /\ puts[m].ok
         /\ \E x \in DOMAIN puts[m].cards :
              /\ "card_id" \in DOMAIN puts[m].cards[x]
              /\ Origin(m, puts[m].cards[x]).card_id = 1
              /\ puts[m].cards[x].card_id = 2
              /\ \E j \in DOMAIN TargetDash(m).dashcards :
                   TargetDash(m).dashcards[j].card_id = 2

\* C8 -- Snapshot immutability: the dataset_query of every snapshot Query
\* handed to restore_content stays as it was before the call.
C8_SnapshotImmutable ==
    action = "restore" =>
      \A k \in DOMAIN cards : cards[k].dataset_query = archive[k].dataset_query

\* snapshot Queries neither matched by name nor created
Unresolved ==
    {k \in DOMAIN archive :
        archive[k].name \notin DOMAIN existing /\ OkPosts(k) = {}}

\* C9 -- Restore return value: restore_content returns true if and only if no
\* snapshot Query is left neither matched by name nor created; what failed in
\* Phase B does not enter.
C9_ReturnValue ==
    RestoreDone => (result = "true" <=> Unresolved = {})

\* true was returned although a Dashboard could not be created or a bulk
\* replace call failed
C9_Witness ==
    /\ RestoreDone /\ result = "true" /\ archive # <<>>
    /\ \/ \E m \in DOMAIN puts : ~puts[m].ok
       \/ \E m \in DOMAIN dposts : ~dposts[m].ok

VerifyDone == action = "verify" /\ pc = "done"
\* verify got the detail of the j-th listed Dashboard
Fetched(j) == j \in DOMAIN report /\ report[j].status # "nodetail"
Dangling(dc) == dc.card_id # 0 /\ dc.card_id \notin Ids(vcards)

\* C10 (as amended) -- Verify detects damage: verify returns true if and only
\* if the Query list and the Dashboard list it got are both non-empty, every
\* Dashboard's detail fetch succeeded, every Dashboard has at least one
\* placement and every placement's Query reference is among the listed Query
\* IDs. Whenever a placement of a Dashboard whose detail verify fetched names
\* a Query ID absent from the Query list, verify returns false and that ID is
\* in the missing IDs reported for that Dashboard.
C10_VerifyDetectsDamage ==
    VerifyDone =>
      /\ result = "true" <=>
           /\ vcards # <<>> /\ vdashes # <<>>
           /\ \A j \in DOMAIN vdashes :
                /\ Fetched(j)
                /\ Detail(vdashes[j].id).dashcards # <<>>
                /\ \A dc \in Range(Detail(vdashes[j].id).dashcards) : ~Dangling(dc)
      /\ \A j \in DOMAIN vdashes :
           Fetched(j) =>
             \A dc \in Range(Detail(vdashes[j].id).dashcards) :
               Dangling(dc) =>
                 /\ result = "false"
                 /\ report[j].id = vdashes[j].id
                 /\ dc.card_id \in Range(report[j].missing)

\* the second placement of a Dashboard names Query 3, which the instance
\* does not hold: false is returned and 3 is reported
C10_Witness ==
    /\ VerifyDone /\ result = "false" /\ fails = 0
    /\ \E j \in DOMAIN report : report[j].missing = <<3>>

\* C10 as stated, with every request answered: whenever a placement of the
\* instance names a Query ID absent from its Query list, verify returns false
\* and the ID is in the missing IDs reported for the Dashboard.
C10_AlwaysReported ==
    (VerifyDone /\ fails = 0) =>
      \A d \in Range(srvDashes) :
        \A dc \in Range(d.dashcards) :
          (dc.card_id # 0 /\ dc.card_id \notin Ids(srvCards)) =>
            /\ result = "false"
            /\ \E j \in DOMAIN report :
                 report[j].id = d.id /\ dc.card_id \in Range(report[j].missing)

\* the IDs of the first n listed Dashboards, in list order
ListedIds(n) == [j \in 1..n |-> vdashes[j].id]

\* C11 -- Verify scan order: with no Query or no Dashboard listed, verify
\* returns false without a single detail fetch; otherwise the detail of every
\* listed Dashboard is fetched exactly once, in list order, also after a
\* failed detail fetch, an empty placement list or a missing Query was found,
\* and the flag is true exactly as long as every Dashboard checked so far was
\* in order (once false it stays false) and is what verify returns.
C11_VerifyScanOrder ==
    (action = "verify" /\ pc \in {"vloop", "done"}) =>
      /\ (srvCards = <<>> \/ srvDashes = <<>> \/ vcards = <<>> \/ vdashes = <<>>)
         => (pc = "done" /\ fetched = <<>> /\ result = "false")
      /\ (vcards # <<>> /\ vdashes # <<>>) =>
           /\ vdashes = srvDashes
           /\ fetched = ListedIds(di - 1)
           /\ Len(report) = di - 1
           /\ success <=> \A j \in DOMAIN report : report[j].status = "ok"
           /\ pc = "done" => /\ fetched = ListedIds(Len(vdashes))
                             /\ result = BoolStr(success)

\* the first of two Dashboards was not in order and the second one was
\* fetched and checked all the same
C11_Witness ==
    /\ VerifyDone /\ Len(vdashes) = 2 /\ fetched = <<1, 2>>
    /\ report[1].status # "ok" /\ report[2].status = "ok"
    /\ result = "false"

BackupDone == action = "backup" /\ pc = "done"
\* positions of the Dashboard list whose detail fetch was answered
Answered == SelectSeq([j \in 1..Len(dashes) |-> j], LAMBDA j : dashes[j] # <<>>)

\* C12 -- Extraction tolerance: the backup always comes to its end, and the
\* Dashboards of the snapshot are exactly the details of the listed
\* Dashboards whose detail fetch was answered, in list order, each as the
\* instance holds it; a Dashboard whose detail fetch returned null is left
\* out, and the Queries of the snapshot are the listed Queries whatever
\* detail fetch failed.
C12_ExtractionTolerance ==
    BackupDone =>
      /\ backup.written /\ exit_code = 0
      /\ Len(dashes) = Len(listed)
      /\ Len(backup.dashes) = Len(Answered)
      /\ \A m \in DOMAIN Answered :
           /\ backup.dashes[m] = dashes[Answered[m]][1]
           /\ backup.dashes[m] = Detail(listed[Answered[m]].id)
      /\ backup.cards = bcards
      /\ bcards \in {srvCards, <<>>}

\* the detail fetch of the first of two Dashboards failed: the snapshot holds
\* the second Dashboard and both Queries
C12_Witness ==
    /\ BackupDone /\ Len(listed) = 2
    /\ dashes[1] = <<>> /\ dashes[2] # <<>>
    /\ Len(backup.dashes) = 1 /\ backup.dashes[1].id = 2
    /\ backup.dashes[1].dashcards # <<>>
    /\ Len(backup.cards) = 2

\* C13 -- Login gate: whatever the action, when login fails the process ends
\* with status 1 having issued no content request and written no archive, and
\* the instance is as it was; every content request was issued with the
\* session token of a successful login in its header.
C13_LoginGate ==
    /\ hdrs \subseteq {"token"}
    /\ hdrs # {} => session_id = "token"
    /\ pc \notin {"login", "exit"} => session_id = "token"
    /\ pc = "exit" =>
         /\ exit_code = 1 /\ session_id = "none"
         /\ hdrs = {}
         /\ ~backup.written
         /\ posts = <<>> /\ dposts = <<>> /\ puts = <<>> /\ fetched = <<>>
         /\ srvCards = srv0.cards /\ srvDashes = srv0.dashes

\* the login of a backup got no answer: status 1, nothing requested
C13_Witness ==
    /\ pc = "exit" /\ action = "backup" /\ exit_code = 1 /\ fails = 1
    /\ hdrs = {} /\ srvCards # <<>> /\ ~backup.written

\* C14 -- Archive errors abort before mutation: in the restore action, when
\* no file was given, the path does not exist, the file is not a ZIP
\* container or it lacks cards.json or dashboards.json, restore_content is
\* never entered: no create and no bulk replace request is issued, no content
\* request at all, and the target is as it was.
C14_ArchiveErrorsAbort ==
    (action = "restore" /\ file # "ok") =>
      /\ pc \in {"login", "exit", "restore", "aborted", "crash"}
      /\ posts = <<>> /\ dposts = <<>> /\ puts = <<>>
      /\ hdrs = {}
      /\ srvCards = srv0.cards /\ srvDashes = srv0.dashes
      /\ result = "none"

\* after a successful login the archive turned out to lack cards.json
C14_Witness ==
    /\ action = "restore" /\ file = "nocards" /\ pc = "crash"
    /\ session_id = "token" /\ archive # <<>>
    /\ posts = <<>> /\ srvCards = srv0.cards

InPhaseAOrLater == action = "restore" /\ pc \in {"cards", "dashes", "done"}
\* pass q has dealt with snapshot Query k
Processed(k, q) ==
    \/ pass > q
    \/ pass = q /\ \A j \in DOMAIN to_restore : to_restore[j] = k => j < i

\* C15 -- Retry after creation failure: every create request that failed in
\* pass 1 or 2 is followed, once the next pass has dealt with the Query, by a
\* create request of that pass for the same Query with the same content; when
\* that request succeeded, the Query's original ID is mapped to the new ID,
\* and restored counts the successful create requests.
C15_RetryAfterFailure ==
    InPhaseAOrLater =>
      /\ \A m \in DOMAIN posts :
           (~posts[m].ok /\ posts[m].pass < Passes
            /\ Processed(posts[m].k, posts[m].pass + 1))
           => \E r \in DOMAIN posts :
                /\ posts[r].pass = posts[m].pass + 1
                /\ posts[r].k = posts[m].k
                /\ posts[r].payload = posts[m].payload
                /\ posts[r].ok =>
                     /\ Str(archive[posts[r].k].id) \in DOMAIN id_map
                     /\ id_map[Str(archive[posts[r].k].id)] = posts[r].id
      /\ restored = Cardinality({m \in DOMAIN posts : posts[m].ok})

\* C16 -- Bounded work: Phase A runs at most 3 passes, whatever the
\* dependencies (cyclic, unresolvable) and however many requests fail; every
\* create request belongs to one of the passes 1..3, a Query is sent at most
\* once per pass, hence at most 3 times, a Query whose create request
\* succeeded is not sent again, and once Phase A is over the three passes (or
\* fewer, with nothing left pending) are all that ran.
C16_BoundedWork ==
    InPhaseAOrLater =>
      /\ pass \in 1..(Passes + 1)
      /\ \A m \in DOMAIN posts : posts[m].pass \in 1..Passes /\ posts[m].pass <= pass
      /\ \A k \in DOMAIN archive :
           /\ Cardinality(PostsOf(k)) <= Passes
           /\ Cardinality(OkPosts(k)) <= 1
           /\ \A m, r \in PostsOf(k) :
                /\ (m # r) => posts[m].pass # posts[r].pass
                /\ (m < r) => ~posts[m].ok
      /\ pc \in {"dashes", "done"} => (to_restore = <<>> \/ pass = Passes + 1)

\* the create request for a Query failed in each of the 3 passes: it was sent
\* 3 times, no more, and restore_content returned false
C16_Witness ==
    /\ RestoreDone /\ pass = Passes + 1 /\ result = "false"
    /\ \E k \in DOMAIN archive :
          /\ Cardinality(PostsOf(k)) = Passes
          /\ OkPosts(k) = {}

PutsOf(d) == {m \in DOMAIN puts : puts[m].d = d}
\* the create requests for snapshot Dashboard d that were answered with an ID
MadeFor(d) == {m \in DOMAIN dposts : dposts[m].d = d /\ dposts[m].ok}
\* positions of the placements of Dashboard d that are kept
Kept(d) ==
    {j \in DOMAIN dashboards[d].dashcards :
        \/ dashboards[d].dashcards[j].card_id = 0
        \/ Str(dashboards[d].dashcards[j].card_id) \in DOMAIN id_map}

\* C17 -- Bulk placement update: every snapshot Dashboard dealt with got
\* exactly one bulk replace call when a target Dashboard ID was found by name
\* or obtained by creation, sent to that ID, and none otherwise; the list
\* sent holds the kept placements in snapshot order, the placement at
\* (1-based) position j of the snapshot with synthetic ID -j, so the IDs of a
\* call are negative and pairwise distinct; row, column, sizes, visualization
\* settings and parameter mappings are the snapshot's.
C17_BulkPlacementUpdate ==
    PhaseBOrDone =>
      /\ \A d \in DOMAIN dashboards :
           /\ d >= di => PutsOf(d) = {}
           /\ d < di =>
                IF dashboards[d].name \in DOMAIN dash_map
                THEN /\ Cardinality(PutsOf(d)) = 1
                     /\ \A m \in PutsOf(d) : puts[m].d_id = dash_map[dashboards[d].name]
                ELSE IF MadeFor(d) # {}
                THEN /\ Cardinality(PutsOf(d)) = 1
                     /\ \A m \in PutsOf(d) : \A c \in MadeFor(d) :
                          puts[m].d_id = dposts[c].id
                ELSE PutsOf(d) = {}
      /\ \A m \in DOMAIN puts :
           LET sent == puts[m].cards
           IN /\ \A x \in DOMAIN sent : sent[x].id < 0
              /\ \A x, y \in DOMAIN sent : x < y => sent[x].id > sent[y].id
              /\ {0 - sent[x].id : x \in DOMAIN sent} = Kept(puts[m].d)
              /\ \A x \in DOMAIN sent :
                   LET dc == dashboards[puts[m].d].dashcards[0 - sent[x].id]
                   IN /\ sent[x].row = dc.row /\ sent[x].col = dc.col
                      /\ sent[x].size_x = dc.size_x /\ sent[x].size_y = dc.size_y
                      /\ sent[x].visualization_settings = dc.visualization_settings
                      /\ sent[x].parameter_mappings = dc.parameter_mappings

\* D1 was created and got one call with the placements 1 and 3 of its 3
\* (placement 2 names a Query that is not in the snapshot), numbered -1, -3
C17_Witness ==
    /\ RestoreDone /\ srv0.dashes = <<>>
    /\ MadeFor(1) # {} /\ Cardinality(PutsOf(1)) = 1
    /\ \E m \in PutsOf(1) :
          /\ Len(puts[m].cards) = 2
          /\ puts[m].cards[1].id = 0 - 1 /\ puts[m].cards[2].id = 0 - 3
          /\ puts[m].cards[2].row = 3

\* C18 -- Create payload rewriting: every create request for a Query, in any
\* pass, carries dataset_query.database equal to the database ID given to
\* restore, no id field and a null folder; its name is the snapshot Query's,
\* and its source table is the snapshot's where that is no dependency token
\* and a dependency token where it is one.
C18_CreatePayload ==
    InPhaseAOrLater =>
      \A m \in DOMAIN posts :
        LET c == archive[posts[m].k]
            sent == posts[m].payload
        IN /\ sent.dataset_query.database = db_id
           /\ "id" \notin DOMAIN sent
           /\ sent.collection_id = "null"
           /\ sent.name = c.name
           /\ DOMAIN sent = DOMAIN c \ {"id"}
           /\ DOMAIN sent.dataset_query = DOMAIN c.dataset_query
           /\ IF IsCardToken(c.dataset_query.st)
              THEN IsCardToken(sent.dataset_query.st)
              ELSE sent.dataset_query.st = c.dataset_query.st

\* 2 Queries backed up from database 2 in a folder were created in passes 1
\* and 2 on database 5
C18_Witness ==
    /\ RestoreDone /\ db_id = 5 /\ Len(archive) = 2 /\ Len(posts) = 2
    /\ posts[1].pass = 1 /\ posts[2].pass = 2
    /\ \A m \in DOMAIN posts :
          /\ posts[m].ok
          /\ archive[posts[m].k].dataset_query.database = 2
          /\ archive[posts[m].k].collection_id = "coll"
          /\ posts[m].payload.dataset_query.database = 5

\* more than any chain of pending Queries can hold
Endless == Len(archive) + Passes + 1
\* the snapshot Queries whose original ID the token of Query k names
DepsOf(k) ==
    {j \in DOMAIN archive :
        archive[k].dataset_query.st = Token(archive[j].id)}

\* Number of pending Queries on the dependency chain of snapshot Query k: 0
\* for a Query matched by name, Endless for a chain that ends in a Query
\* that is not in the snapshot or that runs in a circle.
RECURSIVE PendingChain(_, _)
PendingChain(k, fuel) ==
    IF archive[k].name \in DOMAIN existing THEN 0
    ELSE IF ~IsCardToken(archive[k].dataset_query.st) THEN 1
    ELSE IF fuel = 0 \/ DepsOf(k) = {} THEN Endless
    ELSE LET below == PendingChain(CHOOSE j \in DepsOf(k) : TRUE, fuel - 1)
         IN IF below >= Endless THEN Endless ELSE below + 1

Shallow(k) == PendingChain(k, Len(archive)) <= Passes

\* C19 -- Completeness for shallow chains: when restore_content has returned
\* and every create request succeeded, every pending snapshot Query whose
\* dependency chain ends in a Query without dependency or in a Query matched
\* by name and holds at most 3 pending Queries was created in one of the 3
\* passes, whatever the original IDs and the snapshot order; when every
\* Query's chain is that shallow, true was returned.
C19_ShallowChainsComplete ==
    (RestoreDone /\ AllCreatesOk) =>
      /\ \A k \in DOMAIN archive :
           (Shallow(k) /\ PendingChain(k, Len(archive)) > 0) =>
             \E m \in OkPosts(k) :
               /\ posts[m].pass <= Passes
               /\ OnTarget(posts[m].id, archive[k].name)
      /\ (\A k \in DOMAIN archive : Shallow(k)) => result = "true"

\* a chain of 3 pending Queries whose original IDs fall along the chain took
\* all 3 passes and true was returned
C19_Witness ==
    /\ RestoreDone /\ AllCreatesOk /\ result = "true"
    /\ Len(archive) = 3 /\ srv0.cards = <<>>
    /\ \E k \in DOMAIN archive :
          /\ PendingChain(k, Len(archive)) = Passes
          /\ \E m \in OkPosts(k) : posts[m].pass = Passes

\* C20 -- One creation per name within a run: no two successful create
\* requests of a run carry the same Query name, and no two the same Dashboard
\* name, also for a snapshot holding two Queries or two Dashboards of one
\* name that the target did not hold when the run began.
C20_OnePerName ==
    InPhaseAOrLater =>
      /\ \A m, r \in DOMAIN posts :
           (posts[m].ok /\ posts[r].ok
            /\ posts[m].payload.name = posts[r].payload.name) => m = r
      /\ \A m, r \in DOMAIN dposts :
           (dposts[m].ok /\ dposts[r].ok /\ dposts[m].name = dposts[r].name)
           => m = r

====
